---- MODULE Spec2Model ----
(***************************************************************************)
(* A model of simplycli's command registry (class CLI) and command tree    *)
(* (class Command) of src/src/simplycli/cli.py.                            *)
(*                                                                         *)
(* Strings are sequences of one-character strings, so that str.lower(),    *)
(* slicing and re.search(r"\s+", ...) are computed and not assumed.         *)
(* Command objects live in the heap `cmds`; a Command is referred to by    *)
(* its position in the heap (its identity), 0 standing for None.           *)
(* Python sets iterate in an order the program does not control: every     *)
(* loop over a set is modelled as a choice over all iteration orders.      *)
(*                                                                         *)
(* Four specifications share the state:                                    *)
(*   Spec          register, unregister and find_command;                  *)
(*   SpecDispatch  register, unregister, find_command, process_input and   *)
(*                 process;                                                *)
(*   SpecResolve   register and process_input, on trees large enough for   *)
(*                 a Command to have two subcommands;                      *)
(*   SpecMatches   Command.matches alone, on names, aliases and words of   *)
(*                 mixed case under the four option combinations.          *)
(***************************************************************************)
EXTENDS Integers, Sequences, FiniteSets, TLC

VARIABLES
    cmds,           \* heap of Command objects, in order of construction
    _commands,      \* CLI._commands: set of root Command identities
    _command_table, \* CLI._command_table: command-like -> Command identity (0: no entry)
    result,         \* CLI.result
    last,           \* the last call made on the CLI and its arguments
    ret,            \* what that call returned (process_input / process / register)
    found,          \* what that call returned (find_command): a Command identity
    raised,         \* the exception that call raised, "none" if it returned
    invoked,        \* handler invocations of that call: <<[node, tail, instance]>>
    tried,          \* the Commands whose arguments that call bound, in order
    constructed,    \* per Command: how often command_like() was constructed
    probe,          \* inputs of a stand-alone Command.matches evaluation
    probeOut        \* its outcome

vars == <<cmds, _commands, _command_table, result, last, ret, found, raised,
          invoked, tried, constructed, probe, probeOut>>

registry == <<cmds, result, constructed>>

-----------------------------------------------------------------------------
(* Bounds *)

MaxNodes == 4          \* Command objects constructed in one run of Spec
MaxDispatchNodes == 2  \* Command objects constructed in one run of SpecDispatch
MaxResolveNodes == 3   \* Command objects constructed in one run of SpecResolve
MaxWords == 3          \* whitespace-separated words of an input line

-----------------------------------------------------------------------------
(* Values *)

NoNode == 0
None == "None"

\* an instance of a command-like class: its identity (0: None, k: the k-th
\* instance constructed for the Command) and the attribute its handler writes
NoInstance == [id |-> 0, seen |-> FALSE]

\* str.lower() on one character
LowerChar(c) ==
    CASE c = "A" -> "a"
      [] c = "B" -> "b"
      [] OTHER -> c

RECURSIVE Lower(_)
Lower(s) == IF s = <<>> THEN <<>> ELSE <<LowerChar(Head(s))>> \o Lower(Tail(s))

\* the characters \s matches
Whitespace == {" ", "\t"}

\* re.search(r"\s+", s): [start, end] of the leftmost, longest run of
\* whitespace, 1-based and inclusive; start = 0 when there is none
SpaceStart(s) ==
    IF \E i \in 1..Len(s) : s[i] \in Whitespace
    THEN CHOOSE i \in 1..Len(s) :
            /\ s[i] \in Whitespace
            /\ \A j \in 1..(i - 1) : s[j] \notin Whitespace
    ELSE 0

SpaceEnd(s) ==
    LET st == SpaceStart(s)
    IN  CHOOSE e \in st..Len(s) :
            /\ \A j \in st..e : s[j] \in Whitespace
            /\ (e = Len(s) \/ s[e + 1] \notin Whitespace)

search(s) == IF SpaceStart(s) = 0 THEN [space |-> FALSE, start |-> 0, end |-> 0]
             ELSE [space |-> TRUE, start |-> SpaceStart(s), end |-> SpaceEnd(s)]

\* raw_input[:space.start()] and raw_input[space.end():]
before(s, m) == SubSeq(s, 1, m.start - 1)
after(s, m) == SubSeq(s, m.end + 1, Len(s))

-----------------------------------------------------------------------------
(* The command-like objects handed to the CLI, and how each is registered *)

CommandLikes == {"A", "B", "C"}

\* command_like.__name__
NameOf(d) ==
    CASE d = "A" -> <<"a">>
      [] d = "B" -> <<"B">>
      [] d = "C" -> <<"b">>

\* inspect.isclass(command_like)
IsClass(d) == d = "A"

\* the lowercase / case_sensitive options d is registered with
LowercaseOf(d) == d = "A"
CaseSensitiveOf(d) == d \in {"A", "C"}

-----------------------------------------------------------------------------
(* class Command *)

\* Command.__init__
Command(name, command_like, aliases, lowercase, case_sensitive) ==
    [ name |-> name,
      command_like |-> command_like,
      is_class |-> IsClass(command_like),
      _aliases |-> <<name>> \o aliases,
      lowercase |-> lowercase,
      case_sensitive |-> case_sensitive,
      subcommands |-> {},
      _parent |-> NoNode,
      dunder_parent |-> NoNode,
      _command_like_instance |-> NoInstance ]

\* Command.matches: one alias of the loop
matchesAlias(c, cmd_name, a) ==
    LET alias == IF c.lowercase THEN Lower(a) ELSE a
    IN  \/ (c.case_sensitive /\ cmd_name = alias)
        \/ Lower(cmd_name) = alias

\* Command.matches
matches(c, cmd_name) ==
    \E i \in 1..Len(c._aliases) : matchesAlias(c, cmd_name, c._aliases[i])

\* Command.get_parent
get_parent(c) == c._parent

\* get_instance without its `is None` test: a new instance on every request
get_instance_rebuild(c) ==
    [c EXCEPT !._command_like_instance =
        [id |-> c._command_like_instance.id + 1, seen |-> FALSE]]

\* get_instance assigning the new instance to _parent
get_instance_misassign(c) ==
    IF c._command_like_instance.id = 0
    THEN [c EXCEPT !._parent = 1]
    ELSE c

\* Command.get_instance: the Command after the call; the instance is its
\* _command_like_instance
get_instance(c) ==
    IF c._command_like_instance.id = 0
    THEN [c EXCEPT !._command_like_instance = [id |-> 1, seen |-> FALSE]]
    ELSE c

\* an identifier handed to find_command / find_subcommand: a str or a command-like
StrId(s) == [isstr |-> TRUE, val |-> s]
LikeId(d) == [isstr |-> FALSE, val |-> d]

\* the test both search loops make on one Command:
\*   isinstance(identifier, str) and command.matches(identifier)
\*   elif command.command_like is identifier
hit(c, identifier) ==
    IF identifier.isstr THEN matches(c, identifier.val)
    ELSE c.command_like = identifier.val

\* Command.find_subcommand: every value it can return, over the iteration
\* orders of __subcommands__ (the loop body returns in its first iteration)
RECURSIVE find_subcommand(_, _, _)
find_subcommand(heap, n, identifier) ==
    IF heap[n].subcommands = {} THEN {NoNode}
    ELSE UNION { IF hit(heap[s], identifier) THEN {s}
                 ELSE find_subcommand(heap, s, identifier)
                 : s \in heap[n].subcommands }

\* the descent without its matches test: the first subcommand of the loop is
\* descended into
RECURSIVE descend_unfiltered(_, _, _)
descend_unfiltered(heap, n, raw_input) ==
    LET space == search(raw_input)
        sub_raw_input == after(raw_input, space)
        matching == IF space.space THEN heap[n].subcommands ELSE {}
    IN  IF matching = {} THEN {[node |-> n, tail |-> raw_input]}
        ELSE UNION {descend_unfiltered(heap, s, sub_raw_input) : s \in matching}

\* the descent taking a tail without whitespace for a subcommand name, the
\* way process_input takes a line without whitespace for a command name
RECURSIVE descend_eager(_, _, _)
descend_eager(heap, n, raw_input) ==
    LET space == search(raw_input)
        subcommand_name == IF space.space THEN before(raw_input, space) ELSE raw_input
        sub_raw_input == IF space.space THEN after(raw_input, space) ELSE <<>>
        matching == IF raw_input # <<>>
                    THEN {s \in heap[n].subcommands : matches(heap[s], subcommand_name)}
                    ELSE {}
    IN  IF matching = {} THEN {[node |-> n, tail |-> raw_input]}
        ELSE UNION {descend_eager(heap, s, sub_raw_input) : s \in matching}

\* Command.execute down to the Command whose handler runs: every
\* [node, tail] it can end at, over the iteration orders of __subcommands__
RECURSIVE descend(_, _, _)
descend(heap, n, raw_input) ==
    LET space == search(raw_input)
        subcommand_name == before(raw_input, space)
        sub_raw_input == after(raw_input, space)
        matching == IF space.space
                    THEN {s \in heap[n].subcommands : matches(heap[s], subcommand_name)}
                    ELSE {}
    IN  IF matching = {} THEN {[node |-> n, tail |-> raw_input]}
        ELSE UNION {descend(heap, s, sub_raw_input) : s \in matching}

-----------------------------------------------------------------------------
(* The argument binder (simplycli.arg.ArgMatcher) and the handlers *)

\* the whitespace-separated tokens of the argument text: how many there are
RECURSIVE CountTokens(_)
CountTokens(s) ==
    IF s = <<>> THEN 0
    ELSE IF Head(s) \in Whitespace THEN CountTokens(Tail(s))
    ELSE IF Len(s) = 1 \/ s[2] \in Whitespace THEN 1 + CountTokens(Tail(s))
    ELSE CountTokens(Tail(s))

\* the handler of command-like "C" declares one required positional parameter
\* (index 0, no default); the other handlers declare none that can fail
RequiredPositionals(d) == IF d = "C" THEN 1 ELSE 0

\* ArgMatcher.match_arguments, the error it raises: a required positional
\* slot without a token and without a default
binding_error(c, raw_input) ==
    IF CountTokens(raw_input) < RequiredPositionals(c.command_like)
    THEN "MissingArgumentError" ELSE "none"

\* ArgMatcher.match_arguments: the Command after binding; a class-shaped
\* command-like receives its singleton instance as `self`
match_arguments(c, raw_input) ==
    IF c.is_class THEN get_instance(c) ELSE c

\* the handler of a class-shaped command-like reports whether an earlier
\* invocation wrote to the instance, then writes to it
HandlerResult(c) ==
    IF c.is_class
    THEN (IF c._command_like_instance.seen THEN "seen" ELSE "fresh")
    ELSE c.command_like

HandlerEffect(c) ==
    IF c.is_class THEN [c EXCEPT !._command_like_instance.seen = TRUE] ELSE c

-----------------------------------------------------------------------------
(* class CLI *)

Nodes == 1..Len(cmds)

\* CLI.find_command: every value it can return, over the iteration orders of
\* _commands and of each __subcommands__
RECURSIVE find_in(_, _, _)
find_in(heap, roots, identifier) ==
    IF roots = {} THEN {NoNode}
    ELSE UNION { IF hit(heap[command], identifier) THEN {command}
                 ELSE LET sub == find_subcommand(heap, command, identifier)
                      IN  (sub \ {NoNode}) \cup
                          (IF NoNode \in sub
                           THEN find_in(heap, roots \ {command}, identifier)
                           ELSE {})
                 : command \in roots }

find_command_results(identifier) == find_in(cmds, _commands, identifier)

\* add_subcommand assigning the set instead of adding to it
add_subcommand_replacing(heap, parent, sub) ==
    [heap EXCEPT ![parent].subcommands = {sub},
                 ![sub].dunder_parent = parent]

\* Command.add_subcommand, on the heap
add_subcommand(heap, parent, sub) ==
    [heap EXCEPT ![parent].subcommands = @ \cup {sub},
                 ![sub].dunder_parent = parent]

\* CLI._register_command (CLI.command with parent = None, CLI.subcommand otherwise)
register(command_like, parent) ==
    /\ LET cmd == Len(cmds) + 1
           heap == Append(cmds, Command(NameOf(command_like), command_like, <<>>,
                                        LowercaseOf(command_like),
                                        CaseSensitiveOf(command_like)))
       IN  /\ _command_table' = [_command_table EXCEPT ![command_like] = cmd]
           /\ constructed' = Append(constructed, 0)
           /\ IF parent # None
              THEN \E command_parent \in find_in(heap, _commands, LikeId(parent)) :
                      IF command_parent # NoNode
                      THEN /\ cmds' = add_subcommand(heap, command_parent, cmd)
                           /\ raised' = "none"
                           /\ ret' = command_like
                           /\ UNCHANGED _commands
                      ELSE /\ cmds' = heap
                           /\ raised' = "ValueError"
                           /\ ret' = None
                           /\ UNCHANGED _commands
              ELSE /\ cmds' = heap
                   /\ _commands' = _commands \cup {cmd}
                   /\ raised' = "none"
                   /\ ret' = command_like
    /\ last' = [op |-> "register", command_like |-> command_like, parent |-> parent]
    /\ found' = NoNode
    /\ invoked' = <<>>
    /\ tried' = <<>>
    /\ UNCHANGED <<result, probe, probeOut>>

\* the Commands reachable from a set of Commands through __subcommands__
RECURSIVE reach(_, _)
reach(heap, S) ==
    LET T == S \cup UNION {heap[n].subcommands : n \in S}
    IN  IF T = S THEN S ELSE reach(heap, T)

\* unregister removing every root that holds the command-like anywhere below it
matched_roots_containing(command_like) ==
    {cmd \in _commands :
        \E n \in reach(cmds, {cmd}) : cmds[n].command_like = command_like}

\* CLI.unregister, the roots it removes:
\*   [cmd for cmd in self._commands if cmd.command_like == command_like]
matched_roots(command_like) ==
    {cmd \in _commands : cmds[cmd].command_like = command_like}

\* CLI.unregister
unregister(command_like) ==
    /\ LET matched == matched_roots(command_like)
           table_entry == _command_table[command_like]
           parent == IF table_entry # NoNode THEN get_parent(cmds[table_entry]) ELSE NoNode
       IN  /\ _commands' = _commands \ matched
           /\ IF table_entry # NoNode /\ parent # NoNode
              THEN IF table_entry \in cmds[parent].subcommands
                   THEN /\ cmds' = [cmds EXCEPT ![parent].subcommands = @ \ {table_entry}]
                        /\ raised' = "none"
                   ELSE /\ raised' = "KeyError"
                        /\ UNCHANGED cmds
              ELSE /\ raised' = "none"
                   /\ UNCHANGED cmds
    /\ last' = [op |-> "unregister", command_like |-> command_like]
    /\ ret' = None
    /\ found' = NoNode
    /\ invoked' = <<>>
    /\ tried' = <<>>
    /\ UNCHANGED <<_command_table, result, constructed, probe, probeOut>>

\* CLI.find_command
find_command(identifier) ==
    /\ found' \in find_command_results(identifier)
    /\ last' = [op |-> "find_command", identifier |-> identifier]
    /\ ret' = None
    /\ raised' = "none"
    /\ invoked' = <<>>
    /\ tried' = <<>>
    /\ UNCHANGED <<registry, _commands, _command_table, probe, probeOut>>

\* CLI.process_input, the split of the line: command_name and the rest
split(raw_input) ==
    LET space == search(raw_input)
    IN  IF ~space.space
        THEN [command_name |-> raw_input, raw_input |-> <<>>]
        ELSE [command_name |-> before(raw_input, space),
              raw_input |-> after(raw_input, space)]

\* the loop without its matches test: the first root of the list is executed
candidates_unfiltered(command_name) == _commands

\* CLI.process_input, the loop over list(self._commands): the roots the
\* loop can stop at, over the iteration orders of _commands
candidates(command_name) ==
    {cmd \in _commands : matches(cmds[cmd], command_name)}

\* the orders a list made of a set can have
Orders(S) ==
    {f \in [1..Cardinality(S) -> S] : \A i, j \in DOMAIN f : i # j => f[i] # f[j]}

\* the loop without its return: every matching root of the list is executed
executed_all(order) == order

\* CLI.process_input, the loop `for cmd in commands: if cmd.matches(...):
\* self.result = cmd.execute(...); return self.result`: of the matching roots
\* in list order, the ones it executes
executed(order) == IF order = <<>> THEN <<>> ELSE <<Head(order)>>

\* the assignment forgotten: the field keeps its value
record_result_never(old, value) == old

\* CLI.process_input, `self.result = cmd.execute(raw_input)`
record_result(old, value) == value

\* a process_input call in progress
Started ==
    [heap |-> cmds, result |-> result, constructed |-> constructed,
     value |-> None, invoked |-> <<>>, tried |-> <<>>, raised |-> "none"]

\* Command.execute at the Command the descent ended at (lines 110-114), and
\* what process_input does with its result (line 392)
execute(st, t) ==
    LET c == st.heap[t.node]
        error == binding_error(c, t.tail)
        bound == match_arguments(c, t.tail)
        built == IF bound._command_like_instance.id # c._command_like_instance.id
                 THEN 1 ELSE 0
    IN  IF error # "none"
        THEN [st EXCEPT !.raised = error, !.tried = Append(@, t.node)]
        ELSE [st EXCEPT
                !.heap[t.node] = HandlerEffect(bound),
                !.constructed[t.node] = @ + built,
                !.result = record_result(@, HandlerResult(bound)),
                !.value = HandlerResult(bound),
                !.tried = Append(@, t.node),
                !.invoked = Append(@, [node |-> t.node, tail |-> t.tail,
                                       instance |-> bound._command_like_instance.id])]

\* the roots in `todo` executed one after the other; an exception ends the call
RECURSIVE run(_, _, _)
run(st, todo, raw_input) ==
    IF todo = <<>> \/ st.raised # "none" THEN {st}
    ELSE UNION {run(execute(st, t), Tail(todo), raw_input)
                : t \in descend(st.heap, Head(todo), raw_input)}

\* CLI.process_input: every way the call can end, over the iteration orders
\* of _commands and of each __subcommands__
outcomes(raw_input) ==
    LET parts == split(raw_input)
    IN  UNION {run(Started, executed(order), parts.raw_input)
               : order \in Orders(candidates(parts.command_name))}

\* CLI.process_input
process_input(raw_input) ==
    /\ \E o \in outcomes(raw_input) :
          /\ cmds' = o.heap
          /\ result' = o.result
          /\ constructed' = o.constructed
          /\ invoked' = o.invoked
          /\ tried' = o.tried
          /\ raised' = o.raised
          /\ ret' = IF o.raised = "none" THEN o.value ELSE None
    /\ last' = [op |-> "process_input", raw_input |-> raw_input]
    /\ found' = NoNode
    /\ UNCHANGED <<_commands, _command_table, probe, probeOut>>

\* CLI.process: raw_input is what self.console_input() returns; `inner` is
\* what the process_input call it makes returned
process(raw_input) ==
    /\ \E o \in outcomes(raw_input) :
          /\ cmds' = o.heap
          /\ result' = o.result
          /\ constructed' = o.constructed
          /\ invoked' = o.invoked
          /\ tried' = o.tried
          /\ raised' = o.raised
          /\ ret' = IF o.raised = "none" THEN raw_input ELSE <<>>
          /\ last' = [op |-> "process", raw_input |-> raw_input,
                      inner |-> IF o.raised = "none" THEN o.value ELSE None]
    /\ found' = NoNode
    /\ UNCHANGED <<_commands, _command_table, probe, probeOut>>

\* a stand-alone evaluation of Command.matches on a freshly built Command
probe_matches ==
    /\ probeOut = "unset"
    /\ probeOut' = IF matches(Command(probe.name, "C", probe.aliases,
                                      probe.lowercase, probe.case_sensitive),
                              probe.word)
                   THEN "true" ELSE "false"
    /\ UNCHANGED <<registry, _commands, _command_table, last, ret, found, raised,
                   invoked, tried, probe>>

-----------------------------------------------------------------------------
(* Inputs *)

Words == {<<"a">>, <<"B">>}

RECURSIVE Join(_)
Join(ws) == IF Len(ws) = 1 THEN ws[1]
            ELSE ws[1] \o <<" ">> \o Join(Tail(ws))

\* up to MaxWords words joined by single spaces
WordLines == {Join(ws) : ws \in UNION {[1..k -> Words] : k \in 1..MaxWords}}

\* the empty line, and lines with leading, trailing and repeated whitespace
PaddedLines ==
    {<<>>, <<" ">>}
    \cup {<<" ">> \o w : w \in Words}
    \cup {w \o <<" ">> : w \in Words}
    \cup {w \o <<" ", " ">> \o v : w \in Words, v \in Words}

Lines == WordLines \cup PaddedLines

\* lines of three words: a root, a subcommand and a rest
ResolveLines ==
    {w \o <<" ">> \o v \o <<" ">> \o u : w \in Words, v \in Words, u \in Words}

\* what console_input() hands to process: no line, one word, two words
ConsoleLines == {<<>>} \cup Words \cup {w \o <<" ">> \o v : w \in Words, v \in Words}

Identifiers == {LikeId(d) : d \in CommandLikes} \cup {StrId(w) : w \in Words}

\* names, aliases and words of the stand-alone matches evaluations
ProbeStrings == {<<"a">>, <<"A">>, <<"b">>, <<"a", "b">>, <<"A", "b">>, <<"a", "B">>,
                 <<"A", "B">>}

ProbeAliases == {<<>>} \cup {<<s>> : s \in ProbeStrings}

Probes == [name : ProbeStrings, aliases : ProbeAliases, lowercase : BOOLEAN,
           case_sensitive : BOOLEAN, word : ProbeStrings]

NoProbe == [name |-> <<>>, aliases |-> <<>>, lowercase |-> FALSE,
            case_sensitive |-> FALSE, word |-> <<>>]

Init ==
    /\ cmds = <<>>
    /\ _commands = {}
    /\ _command_table = [d \in CommandLikes |-> NoNode]
    /\ result = None
    /\ last = [op |-> "init"]
    /\ ret = None
    /\ found = NoNode
    /\ raised = "none"
    /\ invoked = <<>>
    /\ tried = <<>>
    /\ constructed = <<>>
    /\ probe = NoProbe
    /\ probeOut = "unset"

\* The registry: registration, unregistration and lookup
Next ==
    \/ \E d \in CommandLikes : \E p \in CommandLikes \cup {None} :
          Len(cmds) < MaxNodes /\ register(d, p)
    \/ \E d \in CommandLikes : unregister(d)
    \/ \E i \in Identifiers : find_command(i)

Spec == Init /\ [][Next]_vars

\* Dispatch: every call of the CLI, on small trees
NextDispatch ==
    \/ \E d \in CommandLikes : \E p \in CommandLikes \cup {None} :
          Len(cmds) < MaxDispatchNodes /\ register(d, p)
    \/ \E d \in CommandLikes : unregister(d)
    \/ \E i \in Identifiers : find_command(i)
    \/ \E l \in Lines : process_input(l)
    \/ \E l \in ConsoleLines : process(l)

SpecDispatch == Init /\ [][NextDispatch]_vars

\* Resolution: trees of registered Commands and the lines dispatched on them
NextResolve ==
    \/ \E d \in CommandLikes : \E p \in CommandLikes \cup {None} :
          Len(cmds) < MaxResolveNodes /\ register(d, p)
    \/ \E l \in ResolveLines : process_input(l)

SpecResolve == Init /\ [][NextResolve]_vars

\* Command.matches alone, on every probe
InitMatches ==
    /\ cmds = <<>>
    /\ _commands = {}
    /\ _command_table = [d \in CommandLikes |-> NoNode]
    /\ result = None
    /\ last = [op |-> "init"]
    /\ ret = None
    /\ found = NoNode
    /\ raised = "none"
    /\ invoked = <<>>
    /\ tried = <<>>
    /\ constructed = <<>>
    /\ probe \in Probes
    /\ probeOut = "unset"

NextMatches == probe_matches

SpecMatches == InitMatches /\ [][NextMatches]_vars

-----------------------------------------------------------------------------
(* Properties *)

Reachable == reach(cmds, _commands)

\* the command-likes with an entry in _command_table
Registered == {d \in CommandLikes : _command_table[d] # NoNode}

\* C1: every node reachable from the roots is the value of exactly one index
\* entry, and every node the index holds is reachable from the roots.
C1_IndexMatchesTree ==
    /\ \A n \in Reachable : Cardinality({d \in CommandLikes : _command_table[d] = n}) = 1
    /\ \A d \in Registered : _command_table[d] \in Reachable

\* C2: after unregister(d) of a registered d, find(d) returns no match and
\* d's node is in no node's children.
C2_UnregisterThenFind ==
    (last.op = "unregister" /\ last.command_like \in Registered) =>
        /\ find_command_results(LikeId(last.command_like)) = {NoNode}
        /\ \A n \in Nodes : _command_table[last.command_like] \notin cmds[n].subcommands

\* C3: a register call naming a parent that is not in the registry fails with
\* the parent-not-found error and leaves roots, index and every node's
\* children as they were before the call.
C3_FailedRegisterKeepsState ==
    [][ (/\ last'.op = "register"
         /\ Len(cmds') = Len(cmds) + 1
         /\ last'.parent # None
         /\ _command_table[last'.parent] = NoNode)
        => /\ raised' = "ValueError"
           /\ _commands' = _commands
           /\ _command_table' = _command_table
           /\ \A n \in Nodes : cmds'[n].subcommands = cmds[n].subcommands ]_vars

\* C4: register(d, parent=p) succeeds exactly when p has an index entry; on
\* success the new node is a child of p's node and is not a root; it fails
\* with the parent-not-found error only when p is not registered.
C4_RegisterUnderRegisteredParent ==
    [][ (/\ last'.op = "register"
         /\ Len(cmds') = Len(cmds) + 1
         /\ last'.parent # None)
        => LET p == last'.parent
               new == Len(cmds')
           IN  /\ (raised' = "none") <=> (_command_table[p] # NoNode)
               /\ (raised' # "none") => raised' = "ValueError"
               /\ (raised' = "none") =>
                     /\ new \in cmds'[_command_table[p]].subcommands
                     /\ new \notin _commands' ]_vars

\* C5: find(identifier) returns a node exactly when some node reachable from
\* the roots matches the identifier, and the node it returns matches it.
C5_FindSearchesWholeTree ==
    (last.op = "find_command") =>
        LET matching == {n \in Reachable : hit(cmds[n], last.identifier)}
        IN  /\ (found # NoNode) => found \in matching
            /\ (matching # {}) => found # NoNode

\* the chains root -> n1 -> ... -> nk of nested nodes, k >= 0
Chains ==
    {c \in UNION {[1..k -> Nodes] : k \in 1..Len(cmds)} :
        /\ c[1] \in _commands
        /\ \A i \in 1..(Len(c) - 1) : c[i + 1] \in cmds[c[i]].subcommands}

\* no two roots and no two siblings match the same word
NonAmbiguous ==
    \A S \in {_commands} \cup {cmds[n].subcommands : n \in Reachable} :
        \A n \in S : \A m \in S \ {n} : \A w \in Words :
            ~(matches(cmds[n], w) /\ matches(cmds[m], w))

RECURSIVE ChainLine(_, _)
ChainLine(c, rest) ==
    IF Len(c) = 0 THEN rest
    ELSE cmds[c[1]].name \o <<" ">> \o ChainLine(Tail(c), rest)

\* C6: in a non-ambiguous tree, process_input of the names of a chain
\* root -> n1 -> ... -> nk followed by a non-empty rest invokes the handler of
\* nk, and of no other node, with exactly the rest as its argument text.
C6_ChainResolvesToLastNode ==
    (last.op = "process_input" /\ NonAmbiguous) =>
        \A c \in Chains : \A rest \in WordLines :
            (last.raw_input = ChainLine(c, rest)) =>
                /\ Len(invoked) = 1
                /\ invoked[1].node = c[Len(c)]
                /\ invoked[1].tail = rest

\* C7: matches is reflexive: a node matches its own name under each of the
\* four (lowercase, case_sensitive) combinations.
C7_MatchesReflexive ==
    (probeOut # "unset" /\ probe.word = probe.name) => probeOut = "true"

\* C8: with case_sensitive = true and lowercase = false a word matches only
\* when it equals the name or an alias character for character.
C8_CaseSensitiveIsExact ==
    (probeOut = "true" /\ probe.case_sensitive /\ ~probe.lowercase) =>
        \/ probe.word = probe.name
        \/ \E i \in 1..Len(probe.aliases) : probe.word = probe.aliases[i]

\* C9: the instance of a class-shaped node is constructed at most once: the
\* first invocation constructs it, every later one gets that same instance
\* and sees what the earlier invocations wrote to it.
C9_SingletonConstructedOnce ==
    [][ (/\ last'.op = "process_input"
         /\ invoked' # <<>>
         /\ cmds[invoked'[1].node].is_class)
        => LET n == invoked'[1].node
               old == cmds[n]._command_like_instance
           IN  /\ constructed'[n] = 1
               /\ invoked'[1].instance = 1
               /\ cmds'[n]._command_like_instance.id = 1
               /\ (old.id # 0) => (constructed'[n] = constructed[n])
               /\ (ret' = "seen") <=> old.seen
               /\ cmds'[n]._command_like_instance.seen ]_vars

C9_Witness ==
    /\ last.op = "process_input"
    /\ invoked # <<>>
    /\ cmds[invoked[1].node].is_class
    /\ ret = "seen"
    /\ constructed[invoked[1].node] = 1

\* the leading token of a line: its longest prefix free of whitespace
HeadToken(l) ==
    LET k == CHOOSE k \in 0..Len(l) :
                /\ \A i \in 1..k : l[i] \notin Whitespace
                /\ (k = Len(l) \/ l[k + 1] \in Whitespace)
    IN  SubSeq(l, 1, k)

NoRootMatches(w) == \A n \in _commands : ~matches(cmds[n], w)

\* C10: when no root matches the head token of the line, process_input
\* returns nothing, raises nothing and invokes no handler.
C10_UnmatchedLineIsSilent ==
    (last.op = "process_input" /\ NoRootMatches(HeadToken(last.raw_input))) =>
        /\ ret = None
        /\ raised = "none"
        /\ invoked = <<>>

C10_Witness ==
    /\ last.op = "process_input"
    /\ _commands # {}
    /\ last.raw_input # <<>>
    /\ last.raw_input[1] \in Whitespace
    /\ NoRootMatches(HeadToken(last.raw_input))
    /\ result # None
    /\ ret = None

\* the value the last process_input call returned, made directly or by process
Returned == IF last.op = "process" THEN last.inner ELSE ret

\* C11: after every process_input call, and so after every process call, the
\* result field of the CLI equals the value that process_input call returned,
\* whether the line matched a root or not.
C11_ResultIsLastReturn ==
    (last.op \in {"process_input", "process"} /\ raised = "none")
        => result = Returned

\* C12: in a tree where no two roots and no two siblings match the same word,
\* the Command that process_input(line) invokes and the tail it binds are the
\* same for every iteration order of _commands and of every __subcommands__.
C12_ResolutionIsDeterministic ==
    NonAmbiguous =>
        \A l \in Lines \cup ResolveLines :
            \A o1 \in outcomes(l) : \A o2 \in outcomes(l) :
            /\ o1.tried = o2.tried
            /\ o1.invoked = o2.invoked

\* a Command with two subcommands that share no word, and a line that the
\* descent resolved to one of the two
C12_Witness ==
    /\ NonAmbiguous
    /\ last.op = "process_input"
    /\ Len(invoked) = 1
    /\ LET n == invoked[1].node
           p == cmds[n].dunder_parent
       IN  /\ p # NoNode
           /\ p \in _commands
           /\ \E m \in cmds[p].subcommands \ {n} :
                  \E w \in Words : matches(cmds[m], w)

\* the Commands from the root down to n, along __parent__
RECURSIVE ParentChain(_)
ParentChain(n) ==
    IF cmds[n].dunder_parent = NoNode THEN <<n>>
    ELSE Append(ParentChain(cmds[n].dunder_parent), n)

HasSpace(t) == \E i \in DOMAIN t : t[i] \in Whitespace

\* the text before the first whitespace character
RECURSIVE LeadingWord(_)
LeadingWord(t) ==
    IF t = <<>> \/ Head(t) \in Whitespace THEN <<>>
    ELSE <<Head(t)>> \o LeadingWord(Tail(t))

RECURSIVE DropSpaces(_)
DropSpaces(t) ==
    IF t # <<>> /\ Head(t) \in Whitespace THEN DropSpaces(Tail(t)) ELSE t

\* the text after the leading word and the whitespace that follows it
DropWord(t) == DropSpaces(SubSeq(t, Len(LeadingWord(t)) + 1, Len(t)))

\* the tail that the k-th Command of the descent is handed for a line
RECURSIVE TailAt(_, _)
TailAt(l, k) == IF k = 1 THEN DropWord(l) ELSE DropWord(TailAt(l, k - 1))

\* the tail has no whitespace, or its leading word matches no child of n
Stops(n, t) ==
    \/ ~HasSpace(t)
    \/ \A s \in cmds[n].subcommands : ~matches(cmds[s], LeadingWord(t))

\* C13: whenever, at a Command on the descent, the remaining tail has no
\* whitespace or its leading word matches no child, the descent stops there:
\* no Command below it is invoked, and the handler invoked receives the entire
\* remaining tail, not split and with its leading word still in it.
C13_DescentStopsAtCurrentNode ==
    last.op \in {"process_input", "process"} =>
        \A k \in DOMAIN invoked :
            LET chain == ParentChain(invoked[k].node)
            IN  /\ invoked[k].tail = TailAt(last.raw_input, Len(chain))
                /\ \A i \in 1..(Len(chain) - 1) :
                       ~Stops(chain[i], TailAt(last.raw_input, i))

\* a Command invoked with a one-word tail that is the name of one of its
\* children
C13_Witness ==
    /\ last.op = "process_input"
    /\ Len(invoked) = 1
    /\ invoked[1].tail # <<>>
    /\ ~HasSpace(invoked[1].tail)
    /\ \E s \in cmds[invoked[1].node].subcommands :
           cmds[s].name = invoked[1].tail /\ matches(cmds[s], invoked[1].tail)

\* n is in _commands or in the __subcommands__ of some Command
Attached(n) == n \in _commands \/ \E p \in Nodes : n \in cmds[p].subcommands

\* C14: a register call for a command-like d whose earlier registration is
\* still in the tree constructs a second, distinct Command: _command_table[d]
\* then refers to the new Command, the earlier one stays where it was (in
\* _commands or in its parent's __subcommands__) and stays reachable from the
\* roots; an earlier root that matches its own name is still tried by
\* process_input of that name under some iteration order.
C14_SecondRegistrationKeepsFirst ==
    [][(last'.op = "register" /\ Len(cmds') = Len(cmds) + 1) =>
        LET d == last'.command_like
            first == _command_table[d]
            second == Len(cmds')
        IN  (first # NoNode /\ Attached(first)) =>
               /\ second # first
               /\ cmds'[second].command_like = d
               /\ _command_table'[d] = second
               /\ first \in _commands => first \in _commands'
               /\ \A p \in Nodes :
                      first \in cmds[p].subcommands => first \in cmds'[p].subcommands
               /\ first \in Reachable => first \in Reachable'
               /\ \A w \in {NameOf(x) : x \in CommandLikes} :
                      (/\ first \in _commands'
                       /\ w = cmds'[first].name
                       /\ matches(cmds'[first], w)) =>
                          \E o \in outcomes(w)' : o.tried = <<first>>
      ]_vars

\* after a second registration of a command-like under the same parent: the
\* index names the new Command and the earlier one is still in the tree
C14_Witness ==
    /\ last.op = "register"
    /\ raised = "none"
    /\ _command_table[last.command_like] = Len(cmds)
    /\ \E first \in Reachable :
          /\ first # Len(cmds)
          /\ cmds[first].command_like = last.command_like
          /\ cmds[first].dunder_parent # NoNode
          /\ cmds[first].dunder_parent = cmds[Len(cmds)].dunder_parent

\* C15: unregister(d) leaves unchanged the __subcommands__ of every Command
\* registered for d, the _command_table entry of every other command-like,
\* every root whose command-like is not d, and the __subcommands__ of every
\* Command other than the parent of d's Command; and no root whose
\* command-like is d is left in _commands.
C15_UnregisterIsLocal ==
    [][last'.op = "unregister" =>
        LET d == last'.command_like
            own == _command_table[d]
            parent == IF own # NoNode THEN cmds[own].dunder_parent ELSE NoNode
        IN  /\ Len(cmds') = Len(cmds)
            /\ \A n \in Nodes :
                   cmds[n].command_like = d => cmds'[n].subcommands = cmds[n].subcommands
            /\ \A e \in CommandLikes \ {d} : _command_table'[e] = _command_table[e]
            /\ \A n \in _commands : cmds[n].command_like # d => n \in _commands'
            /\ \A n \in Nodes \ {parent} : cmds'[n].subcommands = cmds[n].subcommands
            /\ _commands' \subseteq _commands
            /\ \A n \in _commands' : cmds[n].command_like # d
      ]_vars

\* a root with a child has been unregistered while another root stays, and a
\* Command registered under the removed root is still among its children
C15_Witness ==
    /\ last.op = "unregister"
    /\ _command_table[last.command_like] # NoNode
    /\ LET own == _command_table[last.command_like]
       IN  /\ cmds[own].dunder_parent = NoNode
           /\ own \notin _commands
           /\ cmds[own].subcommands # {}
    /\ \E n \in _commands : cmds[n].subcommands # {}

\* C16: a process_input call, made directly or by process, binds the
\* arguments of at most one Command and invokes at most one handler, also when
\* several roots or several siblings match the same word; when the binder of
\* the matched Command raises, no handler is invoked and no other Command is
\* tried.
C16_AtMostOnePass ==
    last.op \in {"process_input", "process"} =>
        /\ Len(tried) <= 1
        /\ Len(invoked) <= 1
        /\ \A k \in DOMAIN invoked : tried = <<invoked[k].node>>
        /\ raised # "none" => invoked = <<>>

\* two roots match the head word, the binder of the one tried first has
\* raised, and the other one has not been tried
C16_Witness ==
    /\ last.op = "process_input"
    /\ Cardinality(candidates(HeadToken(last.raw_input))) >= 2
    /\ raised = "MissingArgumentError"
    /\ Len(tried) = 1
    /\ invoked = <<>>

\* C17: process_input, process and find_command leave _commands,
\* _command_table and, of every Command, everything but its
\* _command_like_instance unchanged (__subcommands__, __parent__ and _parent
\* included); find_command changes no Command at all.
C17_DispatchKeepsTree ==
    [][last'.op \in {"process_input", "process", "find_command"} =>
        /\ _commands' = _commands
        /\ _command_table' = _command_table
        /\ Len(cmds') = Len(cmds)
        /\ \A n \in Nodes :
               [cmds'[n] EXCEPT !._command_like_instance =
                                    cmds[n]._command_like_instance] = cmds[n]
        /\ \A n \in Nodes : cmds'[n] # cmds[n] => tried' = <<n>>
        /\ last'.op = "find_command" => cmds' = cmds
      ]_vars

\* a subcommand has been dispatched to and its instance constructed by that
\* call; it is still a child of its parent
C17_Witness ==
    /\ last.op \in {"process_input", "process"}
    /\ Len(invoked) = 1
    /\ LET n == invoked[1].node
       IN  /\ cmds[n].dunder_parent # NoNode
           /\ n \in cmds[cmds[n].dunder_parent].subcommands
           /\ cmds[n]._command_like_instance.id # 0
           /\ result = "fresh"

====
